---- MODULE Spec2Model ----
(***************************************************************************)
(* netdumpd: the network crash-dump daemon (src/netdumpd.c) and its        *)
(* handler worker (src/cap_handler.c), as a state machine.                 *)
(*                                                                         *)
(* The program state is the client list g_clients, the clock globals       *)
(* g_now and g_last_timeout_check, the dump directory (info files, core    *)
(* files, symbolic links), the open per-donor sockets and the position of  *)
(* eventloop().  One action stands for one call of server_event(),         *)
(* client_event(), timeout_clients() or the shutdown loop; the handlers    *)
(* are operators from a world (a record of the mutable state) to a world,  *)
(* composed exactly as the C functions call each other.                    *)
(*                                                                         *)
(* Sizes and periods are scaled: the staging buffer, the datagram payload, *)
(* the number of dump indices and the two periods keep their relations     *)
(* (payload <= buffer, sweep period < client timeout) at small values.     *)
(***************************************************************************)
EXTENDS Integers, Sequences, FiniteSets, TLC

(* ------------------------------ bounds -------------------------------- *)
\* scaled NETDUMP_DATASIZE: payload bytes of one datagram
MaxData == 2
\* scaled VMCORE_BUFSZ: bytes of the staging buffer
BufSz == 4
\* largest mh_offset a donor sends
MaxOff == 4
\* scaled MAX_DUMPS: dump indices tried per host
MaxDumps == 2
\* scaled CLIENT_TPASS, seconds
TPass == 3
\* scaled CLIENT_TIMEOUT, seconds
TOut == 2
\* seconds the clock runs after start, where time passes
SweepTime == 8
\* heralds the socket dispenser serves
MaxHeralds == 2
\* datagrams and receive errors delivered to client sockets
MaxPkts == 2
\* events one kevent() call returns (nitems(events), scaled)
MaxBatch == 2
\* largest sequence number a donor uses
MaxSeq == 1

(* ------------------------- program constants -------------------------- *)
NETDUMP_DATASIZE == MaxData
VMCORE_BUFSZ == BufSz
MAX_DUMPS == MaxDumps
CLIENT_TIMEOUT == TOut
CLIENT_TPASS == TPass
\* sizeof(struct kerneldumpheader): a KDH payload may be shorter, never longer
\* than a datagram payload
KDH_SIZE == NETDUMP_DATASIZE
NETDUMP_KDH == 1
NETDUMP_FINISHED == 2
NETDUMP_VMCORE == 3

(* number of byte positions of a core file the model tracks *)
NPos == MaxOff + NETDUMP_DATASIZE

(* --------------------------- environment ------------------------------ *)
IPs == {"10.0.0.2", "10.0.0.3"}
\* the PTR record of each donor, as labels; both donors are called "donor"
PTR(ip) == IF ip = "10.0.0.2" THEN <<"donor", "example", "org">>
           ELSE <<"donor", "lab", "example", "org">>
\* directory components a herald may ask for
Paths == {".", "ok"}
Bytes == {1, 2}
Seqnos == 0..MaxSeq
Reasons == {"success", "timeout", "error"}

LineComplete == "Dump complete"
LineTimeout == "Dump incomplete: client timed out"
LineWriteErr == "Dump unsuccessful: write error"
FinalLines == {LineComplete, LineTimeout, LineWriteErr}

(* --------------------------- byte order ------------------------------- *)
\* htonl()/ntohl() on a little-endian host: the four bytes reversed
bswap32(x) ==
    (x % 256) * 16777216 + ((x \div 256) % 256) * 65536
      + ((x \div 65536) % 256) * 256 + ((x \div 16777216) % 256)
htonl(x) == bswap32(x)
ntohl(x) == bswap32(x)

(* ---------------------------- path names ------------------------------ *)
\* A path name is the sequence of its components, "a/b" being <<"a", "b">>.
InfoFileName(path, hostname, i) ==
    <<path, "info." \o hostname \o "." \o ToString(i)>>
CoreFileName(path, hostname, i) ==
    <<path, "vmcore." \o hostname \o "." \o ToString(i)>>
CoreLinkName(path, hostname) == <<path, "vmcore." \o hostname \o ".last">>
InfoLinkName(path, hostname) == <<path, "info." \o hostname \o ".last">>
IsDot(c) == c = "."
NotDot(c) == ~IsDot(c)
\* the file a relative path name reaches from the dump directory
Namei(p) == SelectSeq(p, NotDot)
Dirname(p) == SubSeq(p, 1, Len(p) - 1)
\* what a symbolic link at `link` holding `target` resolves to: a relative
\* target is looked up from the directory that contains the link
ResolveLink(link, target) == Namei(Dirname(link) \o target)

EmptyCore == [p \in 1..NPos |-> 0]
\* pwrite(fd, buf, n, off) with n bytes transferred; byte b of the file is
\* position b + 1 of the sequence, 0 marking a byte never written
PWrite(file, buf, n, off) ==
    [p \in 1..NPos |-> IF p > off /\ p <= off + n THEN buf[p - off] ELSE file[p]]

(* ------------------------------ state --------------------------------- *)
VARIABLES
    g_clients,             \* LIST g_clients, head first
    g_now,                 \* time recorded by the current wake
    g_last_timeout_check,  \* time of the last sweep
    g_caphandler,          \* TRUE iff a handler script was configured (-i)
    infofiles,             \* dump directory: info file -> its lines
    corefiles,             \* dump directory: core file -> its bytes
    symlinks,              \* dump directory: link -> target path name
    socks,                 \* open per-donor sockets
    pc,                    \* position of eventloop()
    events,                \* events of the current kevent() batch not yet dispatched
    clock,                 \* time(NULL)
    trace,                 \* what the last step did, in order
    cur,                   \* the event the last step dispatched and its input
    hist,                  \* per session ever registered: what the donor sent, how it ended
    t_wait,                \* time at which the pending kevent() was called
    nherald,               \* heralds served so far
    npkt,                  \* client-socket events served so far
    children,              \* processes the handler worker has forked, oldest first
    worker                 \* what the worker's next system call does

vars == <<g_clients, g_now, g_last_timeout_check, g_caphandler, infofiles,
          corefiles, symlinks, socks, pc, events, clock, trace, cur, hist,
          t_wait, nherald, npkt, children, worker>>

\* one entry of trace
Op(op, id, fd, s, n) == [op |-> op, id |-> id, fd |-> fd, s |-> s, n |-> n]

\* the mutable state the handlers work on
World ==
    [clients |-> g_clients, info |-> infofiles, core |-> corefiles,
     links |-> symlinks, socks |-> socks, trace |-> <<>>, hist |-> hist,
     crashed |-> FALSE, children |-> children, worker |-> worker]

Commit(w) ==
    /\ g_clients' = w.clients
    /\ infofiles' = w.info
    /\ corefiles' = w.core
    /\ symlinks' = w.links
    /\ socks' = w.socks
    /\ trace' = w.trace
    /\ hist' = w.hist
    /\ children' = w.children
    /\ worker' = worker

Emit(w, e) == [w EXCEPT !.trace = Append(@, e)]

\* a search of the list that finds no client
FindByIp_none(cl, ip, i) == 0

\* the position of client `id` in the list, 0 when it is not there
RECURSIVE IndexOf(_, _, _)
IndexOf(cl, id, i) ==
    IF i > Len(cl) THEN 0
    ELSE IF cl[i].id = id THEN i
    ELSE IndexOf(cl, id, i + 1)
Lookup(w, id) == w.clients[IndexOf(w.clients, id, 1)]
IsLive(cl, id) == IndexOf(cl, id, 1) # 0
RemoveAt(s, i) == SubSeq(s, 1, i - 1) \o SubSeq(s, i + 1, Len(s))
PutClient(w, c) ==
    [w EXCEPT !.clients[IndexOf(w.clients, c.id, 1)] = c]
\* LIST_FOREACH: the first client with this address, 0 if none
RECURSIVE FindByIp(_, _, _)
FindByIp(cl, ip, i) ==
    IF i > Len(cl) THEN 0
    ELSE IF cl[i].ip = ip THEN cl[i].id
    ELSE FindByIp(cl, ip, i + 1)

(* ------------------------------ helpers ------------------------------- *)
\* client_pinfo(): fprintf() to the client's open info stream
client_pinfo(w, c, line) ==
    Emit([w EXCEPT !.info[c.infofile] = Append(@, line)],
         Op("pinfo", c.id, 0, line, 0))

\* send_ack() without htonl(): the sequence number in host byte order
send_ack_hostorder(w, c, seqno) ==
    Emit(w, Op("send", c.id, c.sock, "", seqno))

\* send_ack(): one send() of the sequence number, in network byte order, on
\* the client's socket.  A failed send() is logged and changes nothing.
send_ack(w, c, seqno) ==
    Emit(w, Op("send", c.id, c.sock, "", htonl(seqno)))

(* --------------------------- handler worker --------------------------- *)
\* the limits of the netdumpd.handler service: the descriptor of the script,
\* opened before capability mode was entered, and its name
Limits == [handlerfd |-> "g_handler_fd", handler_script |-> "handler.sh"]
Commands == {"exec_handler", "limit_get"}
WorkerResults == {"ok", "lseek", "fork", "xfer"}
NoRequest == [reason |-> "", ip |-> "", hostname |-> "", infofile |-> <<>>,
              corefile |-> <<>>]
Nvl(reason, ip, hostname, infofile, corefile) ==
    [reason |-> reason, ip |-> ip, hostname |-> hostname,
     infofile |-> infofile, corefile |-> corefile]

\* the child between fork() and fexecve(fd, argv, NULL)
Child(limits, nvlin) ==
    [fd |-> limits.handlerfd,
     argv |-> <<limits.handler_script, nvlin.reason, nvlin.ip, nvlin.hostname,
                nvlin.infofile, nvlin.corefile>>,
     envp |-> <<>>, exited |-> FALSE]

\* handler_command() starting a child whatever the command is
handler_command_anycmd(cmd, limits, nvlin, env) ==
    IF env = "lseek" THEN [error |-> "ESPIPE", children |-> <<>>]
    ELSE IF env = "fork" THEN [error |-> "EAGAIN", children |-> <<>>]
    ELSE [error |-> "ok", children |-> <<Child(limits, nvlin)>>]

\* handler_command(): [error, children], the reply and the children started;
\* env names the call of this request that fails, if any
handler_command(cmd, limits, nvlin, env) ==
    IF cmd # "exec_handler" THEN [error |-> "EINVAL", children |-> <<>>]
    ELSE IF env = "lseek" THEN [error |-> "ESPIPE", children |-> <<>>]
    ELSE IF env = "fork" THEN [error |-> "EAGAIN", children |-> <<>>]
    ELSE [error |-> "ok", children |-> <<Child(limits, nvlin)>>]

\* netdump_cap_handler(): the request sent over the channel and the reply's
\* error returned; a failed transfer never reaches the worker
netdump_cap_handler(reason, ip, hostname, infofile, corefile, env) ==
    IF env = "xfer" THEN [error |-> "ENOTCONN", children |-> <<>>]
    ELSE handler_command("exec_handler", Limits,
                         Nvl(reason, ip, hostname, infofile, corefile), env)

\* exec_handler(): ask the handler worker to run the script, if there is one
exec_handler(w, c, reason) ==
    LET called == Emit([w EXCEPT !.hist[c.id].calls = Append(@, reason)],
                       Op("exec_handler", c.id, 0, reason, 0))
        r == netdump_cap_handler(reason, c.ip, c.hostname, c.infofilename,
                                 c.corefilename, w.worker)
        asked == Emit([called EXCEPT !.children = @ \o r.children],
                      Op("cap_handler", c.id, 0, reason, 0))
    IN  IF ~g_caphandler THEN called
        ELSE IF r.error # "ok"
        THEN Emit(asked, Op("logerr", c.id, 0, r.error, 0))
        ELSE asked

\* free_client(): off the list and the kqueue, the three descriptors closed
free_client(w, c) ==
    LET i == IndexOf(w.clients, c.id, 1)
        gone == [w EXCEPT !.clients = RemoveAt(@, i),
                          !.socks = @ \ {c.sock},
                          !.hist[c.id].freed = TRUE,
                          !.hist[c.id].last_msg = c.last_msg]
    IN  Emit(gone, Op("free", c.id, c.sock, "", 0))

handle_timeout(w, c) ==
    free_client(exec_handler(client_pinfo(w, c, LineTimeout), c, "timeout"), c)

\* what pwrite() returns for n bytes: all of them, one fewer, or -1
PwriteReturn(n, wr) ==
    IF wr = "fail" THEN -1
    ELSE IF wr = "short" /\ n > 0 THEN n - 1
    ELSE n

\* vmcore_flush() that does not compare what pwrite() returns
vmcore_flush_unchecked(w, c, wr) ==
    LET n == c.vmcorebufoff
        r == PwriteReturn(n, wr)
        written == IF r > 0
                   THEN [w EXCEPT !.core[c.corefd] =
                                    PWrite(@, c.vmcorebuf, r, c.vmcoreoff)]
                   ELSE w
        w1 == Emit(written, Op("pwrite", c.id, 0, wr, c.vmcoreoff))
    IN  [w |-> PutClient(w1, [c EXCEPT !.vmcorebufoff = 0]), rc |-> 0]

\* vmcore_flush(): [w, rc]; rc = 1 after a failed or short write, the client
\* then being freed
vmcore_flush(w, c, wr) ==
    LET n == c.vmcorebufoff
        r == PwriteReturn(n, wr)
        written == IF r > 0
                   THEN [w EXCEPT !.core[c.corefd] =
                                    PWrite(@, c.vmcorebuf, r, c.vmcoreoff)]
                   ELSE w
        w1 == Emit(written, Op("pwrite", c.id, 0, wr, c.vmcoreoff))
    IN  IF r # n
        THEN [w |-> free_client(exec_handler(
                        client_pinfo(w1, c, LineWriteErr), c, "error"), c),
              rc |-> 1]
        ELSE [w |-> PutClient(w1, [c EXCEPT !.vmcorebufoff = 0]), rc |-> 0]

\* memcpy(client->vmcorebuf + off, data, len); a copy past the end of the
\* buffer is recorded as an overrun
Memcpy(buf, off, data) ==
    [i \in 1..VMCORE_BUFSZ |->
        IF i > off /\ i <= off + Len(data) THEN data[i - off] ELSE buf[i]]

\* handle_kdh() marking the session only once the length has been checked
handle_kdh_checkfirst(w, c0, pkt) ==
    IF pkt.len < KDH_SIZE
    THEN client_pinfo(w, c0, "Bad KDH: packet too small")
    ELSE LET c == [c0 EXCEPT !.any_data_rcvd = TRUE]
         IN  send_ack(client_pinfo(PutClient(w, c), c, "KDH"), c, pkt.seqno)

handle_kdh(w, c0, pkt) ==
    LET c == [c0 EXCEPT !.any_data_rcvd = TRUE]
        w1 == PutClient(w, c)
    IN  IF pkt.len < KDH_SIZE
        THEN client_pinfo(w1, c, "Bad KDH: packet too small")
        ELSE send_ack(client_pinfo(w1, c, "KDH"), c, pkt.seqno)

\* handle_vmcore() flushing when this payload, not the largest payload, would not fit
handle_vmcore_bylen(w, c0, pkt, wr) ==
    LET c1 == [c0 EXCEPT !.any_data_rcvd = TRUE]
        w1 == PutClient(w, c1)
        must == \/ c1.vmcorebufoff + pkt.len > VMCORE_BUFSZ
                \/ /\ c1.vmcorebufoff > 0
                   /\ c1.vmcoreoff + c1.vmcorebufoff # pkt.offset
        fl == IF must THEN vmcore_flush(w1, c1, wr) ELSE [w |-> w1, rc |-> 0]
    IN  IF fl.rc # 0 THEN fl.w
        ELSE LET c2 == Lookup(fl.w, c0.id)
                 c3 == [c2 EXCEPT
                          !.vmcorebuf = Memcpy(@, c2.vmcorebufoff, pkt.data),
                          !.overrun = @ \/ c2.vmcorebufoff + pkt.len > VMCORE_BUFSZ,
                          !.vmcoreoff = IF c2.vmcorebufoff = 0 THEN pkt.offset
                                        ELSE @,
                          !.vmcorebufoff = @ + pkt.len]
                 w2 == Emit(PutClient(fl.w, c3),
                            Op("memcpy", c0.id, 0, "", pkt.offset))
             IN  send_ack(w2, c3, pkt.seqno)

\* handle_vmcore() flushing only before a segment that is not contiguous
handle_vmcore_gap_only(w, c0, pkt, wr) ==
    LET c1 == [c0 EXCEPT !.any_data_rcvd = TRUE]
        w1 == PutClient(w, c1)
        must == /\ c1.vmcorebufoff > 0
                /\ c1.vmcoreoff + c1.vmcorebufoff # pkt.offset
        fl == IF must THEN vmcore_flush(w1, c1, wr) ELSE [w |-> w1, rc |-> 0]
    IN  IF fl.rc # 0 THEN fl.w
        ELSE LET c2 == Lookup(fl.w, c0.id)
                 c3 == [c2 EXCEPT
                          !.vmcorebuf = Memcpy(@, c2.vmcorebufoff, pkt.data),
                          !.overrun = @ \/ c2.vmcorebufoff + pkt.len > VMCORE_BUFSZ,
                          !.vmcoreoff = IF c2.vmcorebufoff = 0 THEN pkt.offset
                                        ELSE @,
                          !.vmcorebufoff = @ + pkt.len]
                 w2 == Emit(PutClient(fl.w, c3),
                            Op("memcpy", c0.id, 0, "", pkt.offset))
             IN  send_ack(w2, c3, pkt.seqno)

\* handle_vmcore() flushing a full buffer only, whatever the offset of the segment
handle_vmcore_full_only(w, c0, pkt, wr) ==
    LET c1 == [c0 EXCEPT !.any_data_rcvd = TRUE]
        w1 == PutClient(w, c1)
        must == c1.vmcorebufoff + NETDUMP_DATASIZE > VMCORE_BUFSZ
        fl == IF must THEN vmcore_flush(w1, c1, wr) ELSE [w |-> w1, rc |-> 0]
    IN  IF fl.rc # 0 THEN fl.w
        ELSE LET c2 == Lookup(fl.w, c0.id)
                 c3 == [c2 EXCEPT
                          !.vmcorebuf = Memcpy(@, c2.vmcorebufoff, pkt.data),
                          !.overrun = @ \/ c2.vmcorebufoff + pkt.len > VMCORE_BUFSZ,
                          !.vmcoreoff = IF c2.vmcorebufoff = 0 THEN pkt.offset
                                        ELSE @,
                          !.vmcorebufoff = @ + pkt.len]
                 w2 == Emit(PutClient(fl.w, c3),
                            Op("memcpy", c0.id, 0, "", pkt.offset))
             IN  send_ack(w2, c3, pkt.seqno)

handle_vmcore(w, c0, pkt, wr) ==
    LET c1 == [c0 EXCEPT !.any_data_rcvd = TRUE]
        w1 == PutClient(w, c1)
        must == \/ c1.vmcorebufoff + NETDUMP_DATASIZE > VMCORE_BUFSZ
                \/ /\ c1.vmcorebufoff > 0
                   /\ c1.vmcoreoff + c1.vmcorebufoff # pkt.offset
        fl == IF must THEN vmcore_flush(w1, c1, wr) ELSE [w |-> w1, rc |-> 0]
    IN  IF fl.rc # 0 THEN fl.w
        ELSE LET c2 == Lookup(fl.w, c0.id)
                 c3 == [c2 EXCEPT
                          !.vmcorebuf = Memcpy(@, c2.vmcorebufoff, pkt.data),
                          !.overrun = @ \/ c2.vmcorebufoff + pkt.len > VMCORE_BUFSZ,
                          !.vmcoreoff = IF c2.vmcorebufoff = 0 THEN pkt.offset
                                        ELSE @,
                          !.vmcorebufoff = @ + pkt.len]
                 w2 == Emit(PutClient(fl.w, c3),
                            Op("memcpy", c0.id, 0, "", pkt.offset))
             IN  send_ack(w2, c3, pkt.seqno)

\* unlinkat(g_dumpdir_fd, link, 0) followed by symlinkat(target, g_dumpdir_fd,
\* link): [w, ok]; `fail` names the call that fails, if any
ReplaceLink(w, c, link, target, failUnlink, failSymlink) ==
    LET w1 == Emit([w EXCEPT !.links =
                       [l \in DOMAIN w.links \ {Namei(link)} |-> w.links[l]]],
                   Op("unlinkat", c.id, 0, link[2], 0))
        w2 == Emit([w1 EXCEPT !.links =
                       [l \in DOMAIN w1.links \cup {Namei(link)} |->
                           IF l = Namei(link) THEN target ELSE w1.links[l]]],
                   Op("symlinkat", c.id, 0, link[2], 0))
    IN  IF failUnlink THEN [w |-> w, ok |-> FALSE]
        ELSE IF failSymlink THEN [w |-> w1, ok |-> FALSE]
        ELSE [w |-> w2, ok |-> TRUE]

\* handle_finish() acknowledging before it commits the buffered data
handle_finish_ackfirst(w, c0, pkt, wr, fs) ==
    LET fl == vmcore_flush(send_ack(w, c0, pkt.seqno), c0, wr)
    IN  IF fl.rc # 0 THEN fl.w
        ELSE LET c == Lookup(fl.w, c0.id)
                 w1 == Emit(fl.w, Op("fsync", c.id, 0, "", 0))
                 l1 == ReplaceLink(w1, c, CoreLinkName(c.path, c.hostname),
                                   c.corefilename, fs = "unlink1", fs = "symlink1")
                 l2 == ReplaceLink(l1.w, c, InfoLinkName(c.path, c.hostname),
                                   c.infofilename, fs = "unlink2", fs = "symlink2")
             IN  IF ~l1.ok THEN l1.w
                 ELSE IF ~l2.ok THEN l2.w
                 ELSE free_client(
                        exec_handler(client_pinfo(l2.w, c, LineComplete),
                                     c, "success"),
                        c)

handle_finish(w, c0, pkt, wr, fs) ==
    LET fl == vmcore_flush(w, c0, wr)
    IN  IF fl.rc # 0 THEN fl.w
        ELSE LET c == Lookup(fl.w, c0.id)
                 w1 == Emit(fl.w, Op("fsync", c.id, 0, "", 0))
                 l1 == ReplaceLink(w1, c, CoreLinkName(c.path, c.hostname),
                                   c.corefilename, fs = "unlink1", fs = "symlink1")
                 l2 == ReplaceLink(l1.w, c, InfoLinkName(c.path, c.hostname),
                                   c.infofilename, fs = "unlink2", fs = "symlink2")
             IN  IF ~l1.ok THEN l1.w
                 ELSE IF ~l2.ok THEN l2.w
                 ELSE free_client(
                        exec_handler(
                          send_ack(client_pinfo(l2.w, c, LineComplete),
                                   c, pkt.seqno),
                          c, "success"),
                        c)

(* ---------------------------- allocation ------------------------------ *)
\* unlink(client->infofilename): a path relative to the working directory.
\* The daemon is in capability mode from init_cap_mode() on, where such a
\* lookup is refused (ECAPMODE): the dump directory keeps the file.
unlink(dir, name) == dir

\* O_CREAT without O_EXCL: the open succeeds on an existing file too
CanCreate_noexcl(dir, name) == TRUE

\* openat(g_dumpdir_fd, name, O_CREAT | O_EXCL): TRUE iff the file is created
CanCreate(dir, name) == Namei(name) \notin DOMAIN dir
Create(dir, name, content) ==
    [f \in DOMAIN dir \cup {Namei(name)} |->
        IF f = Namei(name) THEN content ELSE dir[f]]

\* the loop taking the first index whose info file can be created, whether or
\* not the core file of that index exists already
RECURSIVE TryIndex_infoonly(_, _, _, _, _)
TryIndex_infoonly(i, path, hostname, info, core) ==
    IF i >= MAX_DUMPS THEN [i |-> i, info |-> info, core |-> core]
    ELSE IF ~CanCreate(info, InfoFileName(path, hostname, i))
    THEN TryIndex_infoonly(i + 1, path, hostname, info, core)
    ELSE [i |-> i, info |-> Create(info, InfoFileName(path, hostname, i), <<>>),
          core |-> Create(core, CoreFileName(path, hostname, i), EmptyCore)]

\* the loop over info.host.0 .. info.host.(MAX_DUMPS - 1): the index both
\* files were created under (MAX_DUMPS if none) and the directory afterwards
RECURSIVE TryIndex(_, _, _, _, _)
TryIndex(i, path, hostname, info, core) ==
    IF i >= MAX_DUMPS THEN [i |-> i, info |-> info, core |-> core]
    ELSE IF ~CanCreate(info, InfoFileName(path, hostname, i))
    THEN TryIndex(i + 1, path, hostname, info, core)
    ELSE LET made == Create(info, InfoFileName(path, hostname, i), <<>>)
         IN  IF ~CanCreate(core, CoreFileName(path, hostname, i))
             THEN TryIndex(i + 1, path, hostname,
                           unlink(made, InfoFileName(path, hostname, i)), core)
             ELSE [i |-> i, info |-> made,
                   core |-> Create(core, CoreFileName(path, hostname, i),
                                   EmptyCore)]

\* cap_getnameinfo() with NI_NAMEREQD, the domain stripped at the first dot,
\* else the numeric form of the address
Hostname(ip, env) == IF env = "numeric" THEN ip ELSE Head(PTR(ip))

NewHist(ip, c) ==
    [ip |-> ip, sock |-> c.sock, info |-> c.infofile, core |-> c.corefd,
     path |-> c.path, hostname |-> c.hostname, last_msg |-> c.last_msg,
     decl |-> EmptyCore, overlap |-> FALSE, calls |-> <<>>, stale |-> <<>>,
     freed |-> FALSE]

\* alloc_client(): [w, id], id = 0 for NULL.  env names what the environment
\* does to this call: "name", "numeric" (no PTR record), "dnsfail", "calloc",
\* "kevent"
alloc_client(w, sd, ip, path, now, env) ==
    LET hostname == Hostname(ip, env)
        t == TryIndex(0, path, hostname, w.info, w.core)
        filed == [w EXCEPT !.info = t.info, !.core = t.core]
        id == Len(w.hist) + 1
        c == [id |-> id, ip |-> ip, hostname |-> hostname, path |-> path,
              infofilename |-> InfoFileName(path, hostname, t.i),
              corefilename |-> CoreFileName(path, hostname, t.i),
              infofile |-> Namei(InfoFileName(path, hostname, t.i)),
              corefd |-> Namei(CoreFileName(path, hostname, t.i)),
              last_msg |-> now, sock |-> sd, any_data_rcvd |-> FALSE,
              vmcorebufoff |-> 0, vmcoreoff |-> 0,
              vmcorebuf |-> [b \in 1..VMCORE_BUFSZ |-> 0], overrun |-> FALSE]
        closed(x) == Emit([x EXCEPT !.socks = @ \ {sd}], Op("close", 0, sd, "", 0))
    IN  IF env = "calloc" THEN [w |-> w, id |-> 0]
        ELSE IF env = "dnsfail" THEN [w |-> closed(w), id |-> 0]
        ELSE IF t.i >= MAX_DUMPS THEN [w |-> closed(filed), id |-> 0]
        ELSE IF env = "kevent" THEN [w |-> closed(filed), id |-> 0]
        ELSE [w |-> Emit([filed EXCEPT !.clients = <<c>> \o @,
                                       !.hist = Append(@, NewHist(ip, c))],
                         Op("alloc", id, sd, "", t.i)),
              id |-> id]

(* ----------------------------- listener ------------------------------- *)
\* The statements of server_event() after handle_timeout(client) has freed
\* the client: client_pinfo() and send_ack() through the dangling pointer.
\* The stream and the socket are closed, so the calls either fail (EBADF) or
\* the process dies on the freed memory.
UseAfterFree(w, c, seqno, uaf) ==
    IF uaf = "crash"
    THEN Emit([w EXCEPT !.crashed = TRUE], Op("crash", c.id, 0, "", 0))
    ELSE Emit(Emit(w, Op("stale_pinfo", c.id, 0, "Dump from", 0)),
              Op("stale_send", c.id, c.sock, "", htonl(seqno)))

\* the socket descriptor the dispenser returns: the lowest one not open
RECURSIVE LowestFree(_, _)
LowestFree(open, fd) == IF fd \in open THEN LowestFree(open, fd + 1) ELSE fd

\* server_event() taking every herald of a known address for a new dump
server_event_noretransmit(w, sd, ip, seqno, path, now, env, uaf) ==
    LET w0 == [w EXCEPT !.socks = @ \cup {sd}]
        found == FindByIp(w0.clients, ip, 1)
    IN  IF found = 0
        THEN LET a == alloc_client(w0, sd, ip, path, now, env)
             IN  IF a.id = 0 THEN a.w
                 ELSE LET c == Lookup(a.w, a.id)
                      IN  send_ack(client_pinfo(a.w, c, "Dump from"), c, seqno)
        ELSE LET c == Lookup(w0, found)
             IN  UseAfterFree(handle_timeout(w0, c), c, seqno, uaf)

\* server_event() once netdump_cap_herald() has returned sd, the donor's
\* address, the herald's sequence number and the requested path
server_event(w, sd, ip, seqno, path, now, env, uaf) ==
    LET w0 == [w EXCEPT !.socks = @ \cup {sd}]
        found == FindByIp(w0.clients, ip, 1)
    IN  IF found = 0
        THEN LET a == alloc_client(w0, sd, ip, path, now, env)
             IN  IF a.id = 0 THEN a.w
                 ELSE LET c == Lookup(a.w, a.id)
                      IN  send_ack(client_pinfo(a.w, c, "Dump from"), c, seqno)
        ELSE LET c == Lookup(w0, found)
             IN  IF ~c.any_data_rcvd THEN send_ack(w0, c, seqno)
                 ELSE UseAfterFree(handle_timeout(w0, c), c, seqno, uaf)

(* --------------------------- client socket ---------------------------- *)
\* client_event() taking every failed recv() for fatal
client_event_anyerrno(w, c0, r, pkt, time, wr, fs) ==
    IF r \in {"EAGAIN", "EINTR", "ECONNREFUSED"} THEN handle_timeout(w, c0)
    ELSE IF r \in {"runt", "badsize"} THEN w
    ELSE LET c == [c0 EXCEPT !.last_msg = time]
             w1 == PutClient(w, c)
         IN  IF pkt.type = NETDUMP_KDH THEN handle_kdh(w1, c, pkt)
             ELSE IF pkt.type = NETDUMP_VMCORE THEN handle_vmcore(w1, c, pkt, wr)
             ELSE IF pkt.type = NETDUMP_FINISHED
             THEN handle_finish(w1, c, pkt, wr, fs)
             ELSE w1

\* client_event() refreshing last_msg before it looks at the datagram's length
client_event_refreshfirst(w, c0, r, pkt, time, wr, fs) ==
    IF r \in {"EAGAIN", "EINTR"} THEN w
    ELSE IF r = "ECONNREFUSED" THEN handle_timeout(w, c0)
    ELSE LET c == [c0 EXCEPT !.last_msg = time]
             w1 == PutClient(w, c)
         IN  IF r \in {"runt", "badsize"} THEN w1
             ELSE IF pkt.type = NETDUMP_KDH THEN handle_kdh(w1, c, pkt)
             ELSE IF pkt.type = NETDUMP_VMCORE THEN handle_vmcore(w1, c, pkt, wr)
             ELSE IF pkt.type = NETDUMP_FINISHED
             THEN handle_finish(w1, c, pkt, wr, fs)
             ELSE w1

\* client_event(): r is what recv() gave: an errno, "runt" (shorter than the
\* header), "badsize" (mh_len differs from the bytes that follow the header)
\* or "ok" with the packet pkt, its header already in host order
client_event(w, c0, r, pkt, time, wr, fs) ==
    IF r \in {"EAGAIN", "EINTR"} THEN w
    ELSE IF r = "ECONNREFUSED" THEN handle_timeout(w, c0)
    ELSE IF r \in {"runt", "badsize"} THEN w
    ELSE LET c == [c0 EXCEPT !.last_msg = time]
             w1 == PutClient(w, c)
         IN  IF pkt.type = NETDUMP_KDH THEN handle_kdh(w1, c, pkt)
             ELSE IF pkt.type = NETDUMP_VMCORE THEN handle_vmcore(w1, c, pkt, wr)
             ELSE IF pkt.type = NETDUMP_FINISHED
             THEN handle_finish(w1, c, pkt, wr, fs)
             ELSE w1

(* ------------------------------- sweep -------------------------------- *)
\* the traversal timing out a client idle for CLIENT_TIMEOUT exactly
RECURSIVE SweepFrom_eager(_, _, _)
SweepFrom_eager(w, ids, now) ==
    IF ids = <<>> THEN w
    ELSE LET c == Lookup(w, Head(ids))
         IN  SweepFrom_eager(IF c.last_msg + CLIENT_TIMEOUT <= now
                       THEN handle_timeout(w, c) ELSE w,
                       Tail(ids), now)

\* LIST_FOREACH_SAFE over g_clients from position i
RECURSIVE SweepFrom(_, _, _)
SweepFrom(w, ids, now) ==
    IF ids = <<>> THEN w
    ELSE LET c == Lookup(w, Head(ids))
         IN  SweepFrom(IF c.last_msg + CLIENT_TIMEOUT < now
                       THEN handle_timeout(w, c) ELSE w,
                       Tail(ids), now)

Ids(cl) == [i \in 1..Len(cl) |-> cl[i].id]

\* timeout_clients() sweeping only when more than CLIENT_TPASS has passed
timeout_clients_late(w, now, last) ==
    IF now - last <= CLIENT_TPASS THEN [w |-> w, last |-> last]
    ELSE [w |-> SweepFrom(w, Ids(w.clients), now), last |-> now]

\* timeout_clients(): [w, last], last the new g_last_timeout_check
timeout_clients(w, now, last) ==
    IF now - last < CLIENT_TPASS THEN [w |-> w, last |-> last]
    ELSE [w |-> SweepFrom(w, Ids(w.clients), now), last |-> now]

\* the loop at out: run once only
ShutdownAll_once(w) ==
    IF w.clients = <<>> THEN w ELSE handle_timeout(w, w.clients[1])

\* while (!LIST_EMPTY(&g_clients)) handle_timeout(LIST_FIRST(&g_clients));
RECURSIVE ShutdownAll(_)
ShutdownAll(w) ==
    IF w.clients = <<>> THEN w
    ELSE ShutdownAll(handle_timeout(w, w.clients[1]))

(* ------------------------------ inputs -------------------------------- *)
NoPkt == [type |-> 0, seqno |-> 0, len |-> 0, offset |-> 0, data |-> <<>>]
Pkt(type, seqno, offset, data) ==
    [type |-> type, seqno |-> seqno, len |-> Len(data), offset |-> offset,
     data |-> data]
Zeros(n) == [i \in 1..n |-> 0]
\* payloads of at most NETDUMP_DATASIZE bytes
Payloads == UNION {[1..n -> Bytes] : n \in 0..NETDUMP_DATASIZE}
\* one payload, of full length
FullPayload == [i \in 1..NETDUMP_DATASIZE |-> 1 + (i % 2)]
KdhPkts ==
    {Pkt(NETDUMP_KDH, s, 0, Zeros(n)) : s \in Seqnos, n \in {KDH_SIZE - 1, KDH_SIZE}}
FinishPkts == {Pkt(NETDUMP_FINISHED, s, 0, <<>>) : s \in Seqnos}
UnknownPkts == {Pkt(9, MaxSeq, 0, <<>>)}
VmcorePkts(seqnos, offsets, payloads) ==
    {Pkt(NETDUMP_VMCORE, s, o, d) : s \in seqnos, o \in offsets, d \in payloads}
RecvResults == {"ok", "EAGAIN", "EINTR", "ECONNREFUSED", "runt", "badsize"}
WriteResults == {"ok", "short", "fail"}
LinkResults == {"ok", "unlink1", "symlink1", "unlink2", "symlink2"}
AllocResults == {"name", "numeric", "dnsfail", "calloc", "kevent"}
UafResults == {"ebadf", "crash"}

ServerEv == [filter |-> "READ", udata |-> 0]
SignalEv == [filter |-> "SIGNAL", udata |-> 0]
ClientEv(id) == [filter |-> "READ", udata |-> id]
\* the events that can be pending: the signal, the listening socket, the
\* sockets of the clients on the list
Ready(signals, heralds, pkts) ==
    (IF signals THEN {SignalEv} ELSE {})
      \cup (IF nherald < heralds THEN {ServerEv} ELSE {})
      \cup (IF npkt < pkts THEN {ClientEv(g_clients[i].id) : i \in 1..Len(g_clients)}
            ELSE {})
Injective(q) == \A i, j \in 1..Len(q) : q[i] = q[j] => i = j
\* what one kevent() call can return: distinct events, at most n
Batches(signals, n, heralds, pkts) ==
    {q \in UNION {[1..k -> Ready(signals, heralds, pkts)] : k \in 0..n} :
        Injective(q)}

Cur(ev, id, ip, r, pkt, seqno) ==
    [ev |-> ev, id |-> id, ip |-> ip, r |-> r, pkt |-> pkt, seqno |-> seqno,
     path |-> "", nvl |-> NoRequest]

\* the time at which the daemon starts; g_last_timeout_check is 0, so that the
\* first wake sweeps
T0 == CLIENT_TPASS

\* a core file left by an earlier run, its info file gone
StaleCore == Create(<<>>, CoreFileName(".", "donor", 0), EmptyCore)

(* ------------------------------ actions ------------------------------- *)
InitWith(handlers, cores) ==
    /\ g_clients = <<>>
    /\ g_now = 0
    /\ g_last_timeout_check = 0
    /\ g_caphandler \in handlers
    /\ infofiles = <<>>
    /\ corefiles \in cores
    /\ symlinks = <<>>
    /\ socks = {}
    /\ pc = "wait"
    /\ events = <<>>
    /\ clock = T0
    /\ t_wait = T0
    /\ trace = <<>>
    /\ cur = Cur("init", 0, "", "", NoPkt, 0)
    /\ hist = <<>>
    /\ nherald = 0
    /\ npkt = 0
    /\ children = <<>>
    /\ worker = "ok"

\* one second passes.  A pending kevent() returns at the latest CLIENT_TPASS
\* after it was called.
Tick(pcs, horizon) ==
    /\ pc \in pcs
    /\ clock < T0 + horizon
    /\ pc = "wait" => clock - t_wait < CLIENT_TPASS
    /\ clock' = clock + 1
    /\ UNCHANGED <<g_clients, g_now, g_last_timeout_check, g_caphandler,
                   infofiles, corefiles, symlinks, socks, pc, events, trace,
                   cur, hist, t_wait, nherald, npkt, children, worker>>

\* kevent() returns a batch (an empty one on its timeout only); g_now = time(NULL)
WakeOn(signals, n, heralds, pkts) ==
    /\ pc = "wait"
    /\ \E q \in Batches(signals, n, heralds, pkts) :
         /\ q = <<>> => clock - t_wait >= CLIENT_TPASS
         /\ events' = q
    /\ g_now' = clock
    /\ pc' = "dispatch"
    /\ trace' = <<>>
    /\ cur' = Cur("wake", 0, "", "", NoPkt, 0)
    /\ UNCHANGED <<g_clients, g_last_timeout_check, g_caphandler, infofiles,
                   corefiles, symlinks, socks, clock, hist, t_wait, nherald, npkt,
                   children, worker>>

\* the part every dispatched event shares: the event is consumed; a crash stops
\* the daemon
Dispatched(w) ==
    /\ Commit(w)
    /\ pc' = IF w.crashed THEN "crashed" ELSE "dispatch"
    /\ events' = Tail(events)
    /\ UNCHANGED <<g_now, g_last_timeout_check, g_caphandler, clock, t_wait>>

\* EVFILT_SIGNAL: goto out
OnSignal ==
    /\ pc = "dispatch" /\ events # <<>> /\ Head(events) = SignalEv
    /\ pc' = "shutdown"
    /\ events' = <<>>
    /\ trace' = <<>>
    /\ cur' = Cur("signal", 0, "", "", NoPkt, 0)
    /\ UNCHANGED <<g_clients, g_now, g_last_timeout_check, g_caphandler,
                   infofiles, corefiles, symlinks, socks, clock, hist, t_wait,
                   nherald, npkt, children, worker>>

\* the listening socket is readable: server_event()
ServerEventOn(ips, seqnos, paths, envs) ==
    /\ pc = "dispatch" /\ events # <<>> /\ Head(events) = ServerEv
    /\ \E ip \in ips, seqno \in seqnos, path \in paths :
       \E env \in IF FindByIp(g_clients, ip, 1) = 0 THEN envs ELSE {"name"} :
       \E uaf \in IF /\ FindByIp(g_clients, ip, 1) # 0
                     /\ Lookup(World, FindByIp(g_clients, ip, 1)).any_data_rcvd
                  THEN UafResults ELSE {"ebadf"} :
         /\ Dispatched(server_event(World, LowestFree(socks, 1), ip, seqno,
                                    path, g_now, env, uaf))
         /\ cur' = [Cur("herald", FindByIp(g_clients, ip, 1), ip, env, NoPkt,
                         seqno) EXCEPT !.path = path]
    /\ nherald' = nherald + 1
    /\ npkt' = npkt

\* netdump_cap_herald() fails: server_event() returns at once
HeraldError ==
    /\ pc = "dispatch" /\ events # <<>> /\ Head(events) = ServerEv
    /\ Dispatched(World)
    /\ cur' = Cur("heralderr", 0, "", "", NoPkt, 0)
    /\ nherald' = nherald + 1
    /\ npkt' = npkt

\* what the donor has declared for each byte of the core file so far, and
\* whether two of its packets covered the same byte
Declared(h, pkt) ==
    [h EXCEPT !.overlap = @ \/ \E p \in 1..NPos :
                               /\ p > pkt.offset /\ p <= pkt.offset + pkt.len
                               /\ h.decl[p] # 0,
              !.decl = [p \in 1..NPos |->
                          IF p > pkt.offset /\ p <= pkt.offset + pkt.len
                          THEN pkt.data[p - pkt.offset] ELSE @[p]]]

\* a client socket is readable and its client is on the list: client_event()
ClientEventOn(recvs, pkts, wrs, fss) ==
    /\ pc = "dispatch" /\ events # <<>> /\ Head(events).filter = "READ"
    /\ IsLive(g_clients, Head(events).udata)
    /\ LET c == Lookup(World, Head(events).udata)
       IN  \E r \in recvs :
           \E pkt \in IF r = "ok" THEN pkts ELSE {NoPkt} :
           \E wr \in IF pkt.type \in {NETDUMP_VMCORE, NETDUMP_FINISHED}
                     THEN wrs ELSE {"ok"} :
           \E fs \in IF pkt.type = NETDUMP_FINISHED /\ wr = "ok"
                     THEN fss ELSE {"ok"} :
             LET w == client_event(World, c, r, pkt, clock, wr, fs)
             IN  /\ Dispatched(IF r = "ok" /\ pkt.type = NETDUMP_VMCORE
                               THEN [w EXCEPT !.hist[c.id] = Declared(@, pkt)]
                               ELSE w)
                 /\ cur' = Cur("client", c.id, c.ip, r, pkt, pkt.seqno)
    /\ npkt' = npkt + 1
    /\ nherald' = nherald

\* a client socket event of this batch whose client an earlier event of the
\* batch has freed: client_event() runs on the dangling udata.  recv() on the
\* closed socket fails, handle_timeout() runs on freed memory: a second
\* handler call for the session, then the double free; or the process dies.
StaleClientEvent ==
    /\ pc = "dispatch" /\ events # <<>> /\ Head(events).filter = "READ"
    /\ Head(events).udata # 0
    /\ ~IsLive(g_clients, Head(events).udata)
    /\ LET id == Head(events).udata
       IN  \E out \in {"crash", "again", "again_crash"} :
             LET again == Emit([World EXCEPT !.hist[id].stale = Append(@, "timeout")],
                               Op("stale_exec_handler", id, 0, "timeout", 0))
                 w == IF out = "crash" THEN World ELSE again
             IN  /\ Dispatched([w EXCEPT !.crashed = out # "again"])
                 /\ cur' = Cur("stale", id, hist[id].ip, out, NoPkt, 0)
    /\ npkt' = npkt + 1
    /\ nherald' = nherald

\* the for loop is over: timeout_clients(), then kevent() is called again
Sweep ==
    /\ pc = "dispatch" /\ events = <<>>
    /\ LET t == timeout_clients(World, g_now, g_last_timeout_check)
       IN  /\ Commit(t.w)
           /\ g_last_timeout_check' = t.last
    /\ pc' = "wait"
    /\ t_wait' = clock
    /\ cur' = Cur("sweep", 0, "", "", NoPkt, 0)
    /\ UNCHANGED <<g_now, g_caphandler, events, clock, nherald, npkt>>

\* out: every client left is timed out, eventloop() returns
Shutdown ==
    /\ pc = "shutdown"
    /\ Commit(ShutdownAll(World))
    /\ pc' = "done"
    /\ cur' = Cur("shutdown", 0, "", "", NoPkt, 0)
    /\ UNCHANGED <<g_now, g_last_timeout_check, g_caphandler, events, clock,
                   t_wait, nherald, npkt>>

(* --------------------------- specifications --------------------------- *)
\* The daemon as a whole: every kind of event, few values of each, wakes of up
\* to MaxBatch events, no passing of time.
Init == InitWith(BOOLEAN, {<<>>})
Wake == WakeOn(TRUE, MaxBatch, MaxHeralds, MaxPkts)
ServerEvent == ServerEventOn(IPs, Seqnos, {"."}, {"name"})
ClientEvent ==
    ClientEventOn(RecvResults,
                  KdhPkts \cup FinishPkts \cup UnknownPkts
                    \cup VmcorePkts(Seqnos, {0, NETDUMP_DATASIZE}, {FullPayload}),
                  WriteResults, LinkResults)

Next ==
    \/ Wake
    \/ OnSignal
    \/ ServerEvent
    \/ HeraldError
    \/ ClientEvent
    \/ StaleClientEvent
    \/ Sweep
    \/ Shutdown

Spec == Init /\ [][Next]_vars

\* One donor's dump: a herald, then VMCORE packets of every offset and payload,
\* and FINISHED; every outcome of the writes.
CorePkts == 4
InitCore == InitWith({FALSE}, {<<>>})
WakeCore == WakeOn(FALSE, 1, 1, CorePkts)
ServerEventCore == ServerEventOn({"10.0.0.2"}, {0}, {"."}, {"name"})
ClientEventCore ==
    ClientEventOn({"ok"},
                  FinishPkts \cup VmcorePkts({0}, 0..MaxOff, Payloads),
                  WriteResults, {"ok"})
NextCore ==
    \/ WakeCore
    \/ ServerEventCore
    \/ ClientEventCore
    \/ Sweep
SpecCore == InitCore /\ [][NextCore]_vars

\* Naming: heralds of both donors for both directories, every outcome of the
\* allocation, dumps that finish at once; a core file may be left from an
\* earlier run.
NameHeralds == 3
NamePkts == 2
InitNames == InitWith({FALSE}, {<<>>, StaleCore})
WakeNames == WakeOn(FALSE, 1, NameHeralds, NamePkts)
ServerEventNames == ServerEventOn(IPs, {0}, Paths, AllocResults)
ClientEventNames == ClientEventOn({"ok"}, {Pkt(NETDUMP_FINISHED, 0, 0, <<>>)},
                                  {"ok"}, LinkResults)
NextNames ==
    \/ WakeNames
    \/ ServerEventNames
    \/ ClientEventNames
    \/ Sweep
SpecNames == InitNames /\ [][NextNames]_vars

\* The sweep under passing time: seconds pass while kevent() waits, which
\* returns on a herald, on a client socket, or CLIENT_TPASS after it was called.
SweepHeralds == 2
SweepPkts == 3
InitSweep == InitWith({FALSE}, {<<>>})
TickSweep == Tick({"wait"}, SweepTime)
WakeSweep == WakeOn(FALSE, 1, SweepHeralds, SweepPkts)
ServerEventSweep == ServerEventOn(IPs, {0}, {"."}, {"name"})
ClientEventSweep ==
    ClientEventOn({"ok", "EAGAIN"}, {Pkt(NETDUMP_KDH, 0, 0, Zeros(KDH_SIZE))},
                  {"ok"}, {"ok"})
NextSweep ==
    \/ TickSweep
    \/ WakeSweep
    \/ ServerEventSweep
    \/ ClientEventSweep
    \/ Sweep
SpecSweep == InitSweep /\ [][NextSweep]_vars

\* Time that passes during a wake as well: seconds pass while kevent() waits
\* and while a batch is handled; packets of every kind, malformed ones included.
ClockTime == 3
InitClock == InitWith({FALSE}, {<<>>})
TickClock == Tick({"wait", "dispatch"}, ClockTime)
WakeClock == WakeOn(FALSE, MaxBatch, MaxHeralds, MaxPkts)
ServerEventClock == ServerEventOn(IPs, {0}, {"."}, {"name"})
ClientEventClock ==
    ClientEventOn({"ok", "runt", "badsize"},
                  {Pkt(NETDUMP_KDH, 0, 0, Zeros(KDH_SIZE))} \cup UnknownPkts
                    \cup VmcorePkts({MaxSeq}, {0}, {FullPayload}),
                  {"ok"}, {"ok"})
NextClock ==
    \/ TickClock
    \/ WakeClock
    \/ ServerEventClock
    \/ ClientEventClock
    \/ StaleClientEvent
    \/ Sweep
SpecClock == InitClock /\ [][NextClock]_vars

\* The daemon with a handler script and its worker: the worker's calls can
\* fail, its channel takes requests with any command, and the children it
\* started run on their own.
MaxChildren == 3
\* the system turns: the worker's next lseek(), fork() or transfer fails, or
\* works again
WorkerTrouble ==
    /\ \E e \in WorkerResults \ {worker} : worker' = e
    /\ UNCHANGED <<g_clients, g_now, g_last_timeout_check, g_caphandler,
                   infofiles, corefiles, symlinks, socks, pc, events, clock,
                   trace, cur, hist, t_wait, nherald, npkt, children>>

\* a request arrives on the worker's channel: handler_command()
WorkerRequest ==
    /\ Len(children) < MaxChildren
    /\ worker # "xfer"
    /\ \E cmd \in Commands, reason \in {"success", "bogus"} :
         LET nvlin == Nvl(reason, "10.0.0.3", "host", <<"info">>, <<"vmcore">>)
             r == handler_command(cmd, Limits, nvlin, worker)
         IN  /\ children' = children \o r.children
             /\ trace' = <<Op("reply", 0, 0, r.error, 0)>>
             /\ cur' = [Cur("request", 0, "", cmd, NoPkt, 0) EXCEPT !.nvl = nvlin]
    /\ UNCHANGED <<g_clients, g_now, g_last_timeout_check, g_caphandler,
                   infofiles, corefiles, symlinks, socks, pc, events, clock,
                   hist, t_wait, nherald, npkt, worker>>

\* a child ends: nobody waits for it
ChildExit ==
    /\ \E i \in DOMAIN children :
         /\ ~children[i].exited
         /\ children' = [children EXCEPT ![i].exited = TRUE]
    /\ UNCHANGED <<g_clients, g_now, g_last_timeout_check, g_caphandler,
                   infofiles, corefiles, symlinks, socks, pc, events, clock,
                   trace, cur, hist, t_wait, nherald, npkt, worker>>

InitHandler == InitWith({TRUE}, {<<>>})
WakeHandler == WakeOn(TRUE, 1, 1, MaxPkts)
ServerEventHandler == ServerEventOn({"10.0.0.2"}, {0}, {"."}, {"name"})
ClientEventHandler ==
    ClientEventOn({"ok", "ECONNREFUSED"},
                  FinishPkts \cup VmcorePkts({0}, {0}, {FullPayload}),
                  {"ok", "fail"}, {"ok"})
NextHandler ==
    \/ WakeHandler
    \/ OnSignal
    \/ ServerEventHandler
    \/ ClientEventHandler
    \/ Sweep
    \/ Shutdown
    \/ WorkerTrouble
    \/ WorkerRequest
    \/ ChildExit
SpecHandler == InitHandler /\ [][NextHandler]_vars

(* ------------------------------- claims ------------------------------- *)
At(op) == {i \in DOMAIN trace : trace[i].op = op}
Has(e) == \E i \in DOMAIN trace : trace[i] = e
Before(ops1, ops2) ==
    \A i, j \in DOMAIN trace :
        trace[i].op \in ops1 /\ trace[j].op \in ops2 => i < j
ClientStep == cur.ev = "client" /\ cur.r = "ok"
Live == {g_clients[i].id : i \in 1..Len(g_clients)}
ClientOf(id) == g_clients[IndexOf(g_clients, id, 1)]

\* C1: a herald from an address whose session has received data ends that
\* session by the timeout path (handler reason timeout) and registers a new
\* session for the address, which owns the socket just dispensed and on whose
\* socket the herald is acknowledged.
C1_SupersedeCreates ==
    (cur.ev = "herald" /\ cur.id # 0 /\ Has(Op("free", cur.id, hist[cur.id].sock, "", 0)))
      => /\ Has(Op("exec_handler", cur.id, 0, "timeout", 0))
         /\ \E id \in Live :
              /\ id # cur.id
              /\ ClientOf(id).ip = cur.ip
              /\ ClientOf(id).sock \in socks
              /\ \E i \in At("alloc") : trace[i].id = id
              /\ Has(Op("send", id, ClientOf(id).sock, "", htonl(cur.seqno)))

\* the packet the last step dispatched was accepted: a KDH of valid length, a
\* VMCORE whose payload was staged, a FINISHED that completed
Accepted ==
    /\ ClientStep
    /\ \/ cur.pkt.type = NETDUMP_KDH /\ cur.pkt.len >= KDH_SIZE
       \/ cur.pkt.type = NETDUMP_VMCORE /\ At("memcpy") # {}
       \/ cur.pkt.type = NETDUMP_FINISHED
            /\ Has(Op("pinfo", cur.id, 0, LineComplete, 0))
UpdateOps == {"pwrite", "fsync", "unlinkat", "symlinkat", "memcpy", "pinfo"}

C3_OffsetCorrect ==
    \A id \in DOMAIN hist :
        (hist[id].freed /\ hist[id].calls = <<"success">> /\ ~hist[id].overlap)
          => \A p \in 1..NPos :
               corefiles[hist[id].core][p] = hist[id].decl[p]
\* a dump of three packets completes that left the first byte uncovered and
\* covered the last
C3_Witness ==
    \E id \in DOMAIN hist :
        /\ hist[id].freed /\ hist[id].calls = <<"success">> /\ ~hist[id].overlap
        /\ hist[id].decl[1] = 0 /\ hist[id].decl[2] # 0
        /\ hist[id].decl[NPos] # 0
        /\ corefiles[hist[id].core] = hist[id].decl
        /\ npkt = CorePkts

\* the step of a retransmitted herald
C4_RetransmitStep ==
    LET id == FindByIp(g_clients, cur'.ip, 1)
    IN  (/\ nherald' = nherald + 1 /\ cur'.ev = "herald"
         /\ id # 0 /\ ~ClientOf(id).any_data_rcvd)
          => /\ g_clients' = g_clients
             /\ infofiles' = infofiles /\ corefiles' = corefiles
             /\ symlinks' = symlinks
             /\ Len(hist') = Len(hist)
             /\ trace' = <<Op("send", id, ClientOf(id).sock, "", htonl(cur'.seqno))>>
\* C4: a herald from an address whose session has received no data leaves the
\* client list and the dump directory as they are and does one thing: it sends
\* the herald's sequence number on that session's socket.
C4_IdempotentHerald == [][C4_RetransmitStep]_vars
\* the second herald of a donor that has sent nothing else is acknowledged
C4_Witness ==
    /\ cur.ev = "herald" /\ cur.id \in Live /\ nherald = 2
    /\ ~ClientOf(cur.id).any_data_rcvd
    /\ trace = <<Op("send", cur.id, ClientOf(cur.id).sock, "", htonl(cur.seqno))>>

C6_FinishOrder ==
    (ClientStep /\ cur.pkt.type = NETDUMP_FINISHED) =>
      /\ trace # <<>> /\ trace[1].op = "pwrite"
      /\ Before({"pwrite"}, {"fsync", "send", "exec_handler"})
      /\ Before({"fsync"}, {"send"})
      /\ At("send") # {} => At("fsync") # {}
      /\ \A i \in At("exec_handler") :
           trace[i].s = "success" =>
             \E j \in At("send") : j < i /\ ntohl(trace[j].n) = cur.seqno
      /\ Accepted =>
           /\ Has(Op("exec_handler", cur.id, 0, "success", 0))
           /\ Has(Op("fsync", cur.id, 0, "", 0))
           /\ Has(Op("send", cur.id, hist[cur.id].sock, "", htonl(cur.seqno)))
\* a FINISHED completes for a session whose buffer held data
C6_Witness ==
    /\ Accepted /\ cur.pkt.type = NETDUMP_FINISHED
    /\ \E p \in 1..NPos : corefiles[hist[cur.id].core][p] # 0

FinalLinesOf(id) == SelectSeq(infofiles[hist[id].info], LAMBDA l : l \in FinalLines)
ReasonOf(line) ==
    IF line = LineComplete THEN "success"
    ELSE IF line = LineTimeout THEN "timeout" ELSE "error"

\* C7: a session that has been destroyed, by whatever path, has exactly one
\* final line in its info file and has had exactly one handler request, whose
\* reason corresponds to that line; none has had zero requests or two.
C7_OneLineOneRequest ==
    \A id \in DOMAIN hist :
        hist[id].freed =>
          /\ Len(FinalLinesOf(id)) = 1
          /\ Len(hist[id].calls \o hist[id].stale) = 1
          /\ hist[id].calls = <<ReasonOf(FinalLinesOf(id)[1])>>

\* C8 as stated: a receive error other than EAGAIN and EINTR ends the session
\* with handler reason error and an error line in its info file.
C8_RecvErrorIsError ==
    (cur.ev = "client" /\ cur.r = "ECONNREFUSED") =>
      /\ Has(Op("exec_handler", cur.id, 0, "error", 0))
      /\ \E i \in At("pinfo") : trace[i].s \notin {LineTimeout, LineComplete}
\* the step of a failed receive
C8_RecvStep ==
    LET id == cur'.id
    IN  (npkt' = npkt + 1 /\ cur'.ev = "client") =>
          /\ cur'.r \in {"EAGAIN", "EINTR"} =>
               /\ g_clients' = g_clients /\ infofiles' = infofiles
               /\ corefiles' = corefiles /\ symlinks' = symlinks
               /\ socks' = socks /\ hist' = hist /\ trace' = <<>>
          /\ cur'.r = "ECONNREFUSED" =>
               /\ id \in Live /\ ~IsLive(g_clients', id)
               /\ SubSeq(trace', 1, 2) =
                    <<Op("pinfo", id, 0, LineTimeout, 0),
                      Op("exec_handler", id, 0, "timeout", 0)>>
               /\ trace'[Len(trace')] = Op("free", id, hist[id].sock, "", 0)
               /\ \A i \in DOMAIN trace' : trace'[i].op # "send"
\* C8 amended: a receive error other than EAGAIN and EINTR ends the session by
\* the timeout path: the line "client timed out", handler reason timeout, the
\* client freed; EAGAIN and EINTR change nothing and send nothing.
C8_RecvError == [][C8_RecvStep]_vars
\* a session that has received data is ended by a receive error
C8_Witness ==
    /\ cur.ev = "client" /\ cur.r = "ECONNREFUSED"
    /\ hist[cur.id].freed /\ hist[cur.id].calls = <<"timeout">>
    /\ Len(infofiles[hist[cur.id].info]) > 2

\* C9: after FINISHED has completed for a session of host H with path
\* component P, the links P/vmcore.H.last and P/info.H.last exist and, resolved
\* from the directory that contains them, name that session's core file and
\* info file, for every P and whatever links there were before.
C9_LastLinksResolve ==
    (Accepted /\ cur.pkt.type = NETDUMP_FINISHED) =>
      LET h == hist[cur.id]
          cl == CoreLinkName(h.path, h.hostname)
          il == InfoLinkName(h.path, h.hostname)
      IN  /\ Namei(cl) \in DOMAIN symlinks
          /\ Namei(il) \in DOMAIN symlinks
          /\ ResolveLink(cl, symlinks[Namei(cl)]) = h.core
          /\ ResolveLink(il, symlinks[Namei(il)]) = h.info

\* a herald is answered with a new session: the client list grows
NewSession == Len(g_clients') = Len(g_clients) + 1
\* distinct names on the list; fresh names for a new session
C10_Distinct ==
    \A i, j \in 1..Len(g_clients) :
        i # j => /\ Namei(g_clients[i].infofilename) # Namei(g_clients[j].infofilename)
                 /\ Namei(g_clients[i].corefilename) # Namei(g_clients[j].corefilename)
C10_Fresh ==
    NewSession => /\ Namei(Head(g_clients').infofilename) \notin DOMAIN infofiles
                  /\ Namei(Head(g_clients').corefilename) \notin DOMAIN corefiles
\* C10: no two sessions on the client list have the same info file name or the
\* same core file name, donors of one short hostname included; and the names a
\* new session is given are names of no file that was in the dump directory.
C10_UniqueNames == []C10_Distinct /\ [][C10_Fresh]_vars
\* two donors of one short hostname have sessions in one directory, next to
\* the files of a dump that is over
C10_Witness ==
    /\ Len(g_clients) = 2
    /\ g_clients[1].ip # g_clients[2].ip
    /\ g_clients[1].hostname = g_clients[2].hostname
    /\ g_clients[1].path = g_clients[2].path
    /\ \E id \in DOMAIN hist : hist[id].freed /\ hist[id].path = g_clients[1].path

\* the step of a packet whose flush fails or is short
C11_FlushFailStep ==
    LET id == cur'.id
        c == ClientOf(id)
        failed == \E i \in DOMAIN trace' :
                     /\ trace'[i].op = "pwrite"
                     /\ PwriteReturn(c.vmcorebufoff, trace'[i].s) # c.vmcorebufoff
    IN  (/\ npkt' = npkt + 1 /\ cur'.ev = "client" /\ cur'.r = "ok"
         /\ cur'.pkt.type \in {NETDUMP_VMCORE, NETDUMP_FINISHED}
         /\ failed)
          => /\ ~IsLive(g_clients', id)
             /\ hist'[id].freed /\ hist'[id].calls = <<"error">>
             /\ infofiles'[hist[id].info] = Append(infofiles[hist[id].info], LineWriteErr)
             /\ symlinks' = symlinks
             /\ \A i \in DOMAIN trace' :
                  trace'[i].op \notin {"send", "memcpy", "fsync", "unlinkat", "symlinkat"}
             /\ \E i, j, k \in DOMAIN trace' :
                  /\ i < j /\ j < k
                  /\ trace'[i] = Op("pinfo", id, 0, LineWriteErr, 0)
                  /\ trace'[j] = Op("exec_handler", id, 0, "error", 0)
                  /\ trace'[k] = Op("free", id, c.sock, "", 0)
\* C11: when the flush a VMCORE or a FINISHED packet causes fails or writes
\* fewer bytes than are buffered, the session records the write error line,
\* calls the handler with error and is destroyed; the packet is not
\* acknowledged, its payload is not staged, and no .last link is made or changed.
C11_WriteFailure == [][C11_FlushFailStep]_vars
\* a VMCORE whose offset forces a flush meets a short write
C11_Witness ==
    /\ cur.ev = "client" /\ cur.pkt.type = NETDUMP_VMCORE
    /\ \E i \in At("pwrite") : trace[i].s = "short"
    /\ hist[cur.id].freed /\ hist[cur.id].calls = <<"error">>

\* a step taken once the signal has been seen
C12_AfterSignalStep ==
    pc \in {"shutdown", "done"} =>
      /\ npkt' = npkt /\ nherald' = nherald
      /\ pc' = "done" /\ g_clients' = <<>>
      /\ \A id \in Live :
           /\ hist'[id].freed /\ hist'[id].calls = Append(hist[id].calls, "timeout")
           /\ infofiles'[hist[id].info] = Append(infofiles[hist[id].info], LineTimeout)
           /\ \E i, j, k \in DOMAIN trace' :
                /\ i < j /\ j < k
                /\ trace'[i] = Op("pinfo", id, 0, LineTimeout, 0)
                /\ trace'[j] = Op("exec_handler", id, 0, "timeout", 0)
                /\ trace'[k] = Op("free", id, ClientOf(id).sock, "", 0)
      /\ \A i \in DOMAIN trace' : trace'[i].id \in Live
\* C12: once the termination signal has been seen no packet and no herald is
\* dispatched any more, the events left in the batch included; every session
\* then on the list is ended by the timeout path (line "client timed out",
\* handler reason timeout), and the loop has returned with an empty list.
C12_Shutdown ==
    /\ [](pc \in {"shutdown", "done"} => events = <<>>)
    /\ [](pc = "done" => g_clients = <<>>)
    /\ [][C12_AfterSignalStep]_vars
\* the signal comes when two sessions are live, one of them holding data
C12_Witness ==
    /\ pc = "done" /\ cur.ev = "shutdown"
    /\ Cardinality(At("free")) = 2
    /\ \E id \in DOMAIN hist : hist[id].decl # EmptyCore /\ hist[id].calls = <<"timeout">>

\* C13: when a FINISHED packet has been dispatched to a session, the session is
\* off the list at the end of the dispatch, destroyed with handler reason
\* success or, after a write failure, error; this whatever the calls that
\* replace the .last links return.
C13_FinishedIsTerminal ==
    (ClientStep /\ cur.pkt.type = NETDUMP_FINISHED) =>
      /\ ~IsLive(g_clients, cur.id)
      /\ hist[cur.id].freed
      /\ hist[cur.id].calls \in {<<"success">>, <<"error">>}

\* the packet of a step was rejected, by client_event() or by its handler
Rejected(ev) ==
    \/ ev.r \in {"runt", "badsize"}
    \/ ev.r = "ok" /\ ev.pkt.type \notin {NETDUMP_KDH, NETDUMP_VMCORE, NETDUMP_FINISHED}
    \/ ev.r = "ok" /\ ev.pkt.type = NETDUMP_KDH /\ ev.pkt.len < KDH_SIZE
\* a step of client_event() for a client that is on the list before and after
SurvivedStep ==
    /\ npkt' = npkt + 1 /\ cur'.ev = "client"
    /\ IsLive(g_clients, cur'.id) /\ IsLive(g_clients', cur'.id)
FlagAfter(id) == g_clients'[IndexOf(g_clients', id, 1)].any_data_rcvd
C14_RejectedStep ==
    (SurvivedStep /\ Rejected(cur')) =>
        FlagAfter(cur'.id) = ClientOf(cur'.id).any_data_rcvd
\* C14 as stated: a packet that is rejected (a KDH shorter than the header
\* structure, a malformed datagram, a packet of unknown type) does not set
\* any_data_rcvd, which therefore is false as long as no KDH or later packet
\* has been accepted.
C14_RejectedKeepsFlag == [][C14_RejectedStep]_vars
C14_FlagStep ==
    /\ NewSession => ~Head(g_clients').any_data_rcvd
    /\ SurvivedStep =>
         FlagAfter(cur'.id) =
           (\/ ClientOf(cur'.id).any_data_rcvd
            \/ cur'.r = "ok" /\ cur'.pkt.type \in {NETDUMP_KDH, NETDUMP_VMCORE})
    /\ \A id \in Live :
         (IsLive(g_clients', id) /\ ~(SurvivedStep /\ cur'.id = id))
           => FlagAfter(id) = ClientOf(id).any_data_rcvd
\* C14 amended: any_data_rcvd is false from the creation of a session until a
\* KDH or VMCORE packet is handed to its handler, and true from then on: a KDH
\* sets it even when it is shorter than the header structure and is rejected;
\* a malformed datagram, a packet of unknown type and a failed receive do not.
C14_FlagSetOnDispatch == [][C14_FlagStep]_vars
\* a KDH that is too short has set the flag of a session and was not acknowledged
C14_Witness ==
    /\ ClientStep /\ cur.pkt.type = NETDUMP_KDH /\ cur.pkt.len < KDH_SIZE
    /\ cur.id \in Live /\ ClientOf(cur.id).any_data_rcvd
    /\ At("send") = {}
    /\ infofiles[hist[cur.id].info] = <<"Dump from", "Bad KDH: packet too small">>

\* C15: the client list never holds two sessions of one donor address, whatever
\* heralds, packets and terminations came before.
C15_OneSessionPerIp ==
    \A i, j \in 1..Len(g_clients) :
        g_clients[i].ip = g_clients[j].ip => i = j
\* a second herald of a donor has been handled and the list holds one session
C15_Witness ==
    /\ cur.ev = "herald" /\ cur.id \in Live
    /\ ClientOf(cur.id).ip = cur.ip
    /\ Len(g_clients) = 1 /\ nherald = MaxHeralds

\* the client list with the last_msg of client `id` set to t
WithLastMsg(cl, id, t) ==
    [i \in 1..Len(cl) |-> IF cl[i].id = id THEN [cl[i] EXCEPT !.last_msg = t]
                          ELSE cl[i]]
\* the step of a datagram that is too short, of one whose length is not the
\* length it declares, or of a packet of unknown type
C16_IgnoredStep ==
    LET id == cur'.id
        malformed == cur'.r \in {"runt", "badsize"}
        unknown == /\ cur'.r = "ok"
                   /\ cur'.pkt.type \notin {NETDUMP_KDH, NETDUMP_VMCORE, NETDUMP_FINISHED}
    IN  (npkt' = npkt + 1 /\ cur'.ev = "client" /\ (malformed \/ unknown)) =>
          /\ trace' = <<>>
          /\ infofiles' = infofiles /\ corefiles' = corefiles
          /\ symlinks' = symlinks /\ socks' = socks /\ hist' = hist
          /\ malformed => g_clients' = g_clients
          /\ unknown => WithLastMsg(g_clients', id, ClientOf(id).last_msg) = g_clients
\* C16: a datagram shorter than the header, a datagram whose declared length is
\* not its size less the header, and a packet of unknown type are answered
\* with no ACK and change neither the buffer, the files, any_data_rcvd nor the
\* list; the first two leave last_msg as it is too.
C16_IgnoredPackets == [][C16_IgnoredStep]_vars
\* a runt arrives, later than the last packet, for a session that holds data
C16_Witness ==
    /\ cur.ev = "client" /\ cur.r = "runt" /\ cur.id \in Live
    /\ ClientOf(cur.id).vmcorebufoff > 0
    /\ ClientOf(cur.id).last_msg < clock

\* C17: whatever a wake sets or decides by the time, it does with g_now, the
\* time read when kevent() returned, though the clock goes on during the wake:
\* the last_msg of a session just created, the last_msg of a session that has
\* just received a packet, the gate of the sweep and its comparison with
\* CLIENT_TIMEOUT.
C17_SingleTimestamp ==
    /\ (cur.ev = "herald" /\ At("alloc") # {}) => Head(g_clients).last_msg = g_now
    /\ (ClientStep /\ cur.id \in Live) => ClientOf(cur.id).last_msg = g_now
    /\ cur.ev = "sweep" =>
         /\ g_last_timeout_check = g_now \/ g_now - g_last_timeout_check < CLIENT_TPASS
         /\ g_last_timeout_check = g_now =>
              \A id \in Live : ClientOf(id).last_msg + CLIENT_TIMEOUT >= g_now

StaleOps == {"stale_pinfo", "stale_send", "stale_exec_handler", "crash"}
\* C18: a session that has been destroyed is not touched again: no event left
\* in the batch is for a client that is off the list and none is dispatched to
\* one, and no step, the rest of server_event() after it has ended the
\* superseded session included, writes to the info file or sends on the socket
\* of a client it has freed.
C18_NoUseAfterDestroy ==
    /\ \A i \in DOMAIN events :
         events[i].udata # 0 => IsLive(g_clients, events[i].udata)
    /\ cur.ev # "stale"
    /\ \A i \in DOMAIN trace : trace[i].op \notin StaleOps
    /\ pc # "crashed"

\* The step of a VMCORE packet for a client with `fill` bytes buffered from
\* `base`: staged into the empty buffer, appended, or staged after a flush;
\* `room` is the number of bytes that must be free for the payload to be
\* appended.
C19_StageStep(room(_)) ==
    LET id == cur'.id
        pkt == cur'.pkt
        c == ClientOf(id)
        fill == c.vmcorebufoff
        base == c.vmcoreoff
        d == g_clients'[IndexOf(g_clients', id, 1)]
        pw == {i \in DOMAIN trace' : trace'[i].op = "pwrite"}
        staged(at) == /\ d.vmcorebufoff = at + pkt.len
                      /\ \A b \in 1..VMCORE_BUFSZ :
                           d.vmcorebuf[b] = IF b > at /\ b <= at + pkt.len
                                            THEN pkt.data[b - at]
                                            ELSE IF b <= at THEN c.vmcorebuf[b]
                                            ELSE d.vmcorebuf[b]
    IN  (/\ npkt' = npkt + 1 /\ cur'.ev = "client" /\ cur'.r = "ok"
         /\ pkt.type = NETDUMP_VMCORE /\ IsLive(g_clients', id))
          => IF fill = 0
             THEN /\ pw = {} /\ corefiles' = corefiles
                  /\ d.vmcoreoff = pkt.offset /\ staged(0)
             ELSE IF base + fill = pkt.offset /\ fill + room(pkt) <= VMCORE_BUFSZ
             THEN /\ pw = {} /\ corefiles' = corefiles
                  /\ d.vmcoreoff = base /\ staged(fill)
             ELSE /\ pw # {} /\ \A i \in pw : i = 1 /\ trace'[i].n = base
                  /\ corefiles' = [corefiles EXCEPT ![c.corefd] =
                                      PWrite(@, c.vmcorebuf, fill, base)]
                  /\ d.vmcoreoff = pkt.offset /\ staged(0)
PayloadLength(pkt) == pkt.len
LargestPayload(pkt) == NETDUMP_DATASIZE
\* C19 as stated: a VMCORE payload is staged at the packet's offset when the
\* buffer is empty, with no write; it is appended, with no flush, when the
\* buffer is not empty, the offset is base + fill and fill plus the length of
\* the payload is within the capacity; otherwise the buffer is flushed first
\* and the payload staged as into an empty buffer.
C19_AppendIfFits == [][C19_StageStep(PayloadLength)]_vars
\* C19 amended: the payload is appended with no flush when the buffer is not
\* empty, the offset is base + fill and fill plus NETDUMP_DATASIZE, the
\* largest payload a packet can carry, is within the capacity, whatever the
\* length of this payload; otherwise as stated.
C19_AppendIfLargestFits == [][C19_StageStep(LargestPayload)]_vars
\* a payload shorter than the largest, contiguous and small enough for the
\* room left, has been staged after a flush
C19_Witness ==
    /\ ClientStep /\ cur.pkt.type = NETDUMP_VMCORE /\ cur.id \in Live
    /\ cur.pkt.len < NETDUMP_DATASIZE /\ cur.pkt.len > 0
    /\ ClientOf(cur.id).vmcorebufoff = cur.pkt.len
    /\ ClientOf(cur.id).vmcoreoff = cur.pkt.offset
    /\ \E i \in At("pwrite") :
         /\ trace[i].s = "ok" /\ trace[i].n < cur.pkt.offset
         /\ cur.pkt.offset - trace[i].n + cur.pkt.len <= VMCORE_BUFSZ
         /\ \A p \in (trace[i].n + 1)..cur.pkt.offset :
              corefiles[ClientOf(cur.id).corefd][p] # 0

\* a step that destroys session id by handle_timeout(): a sweep timeout, the
\* shutdown, a superseding herald or a failed receive
DestroyedByTimeout(id) ==
    /\ id \in DOMAIN hist /\ ~hist[id].freed
    /\ hist'[id].freed
    /\ hist'[id].calls = Append(hist[id].calls, "timeout")
C20_DestroyStep ==
    \A id \in DOMAIN hist' :
        (DestroyedByTimeout(id) /\ ~hist'[id].overlap)
          => \A p \in 1..NPos :
               hist'[id].decl[p] # 0
                 => corefiles'[hist'[id].core][p] = hist'[id].decl[p]
\* C20: when a session is destroyed by any path other than a write error,
\* every byte of every VMCORE packet it ACKed is in the core file at its
\* declared offset: nothing is left in the coalescer.
C20_AckedPayloadWritten == [][C20_DestroyStep]_vars

\* C21: between events every open per-donor socket is the socket of exactly
\* one live session: a herald that creates no session leaves no open socket
\* without an owner, and there are no more open sockets than live sessions.
C21_NoOrphanSocket ==
    /\ socks = {g_clients[i].sock : i \in 1..Len(g_clients)}
    /\ \A i, j \in 1..Len(g_clients) :
         g_clients[i].sock = g_clients[j].sock => i = j
    /\ Cardinality(socks) <= Len(g_clients)

\* C22: the fill of every session's buffer is between 0 and the capacity, and
\* no copy of a payload, of any length from 0 to NETDUMP_DATASIZE, has gone
\* past the end of the staging buffer: fill + length <= capacity at each copy.
C22_FillInBounds ==
    \A i \in 1..Len(g_clients) :
        /\ g_clients[i].vmcorebufoff >= 0
        /\ g_clients[i].vmcorebufoff <= VMCORE_BUFSZ
        /\ ~g_clients[i].overrun
\* a payload of the largest length has been copied, without a flush, into the
\* last NETDUMP_DATASIZE bytes of the buffer
C22_Witness ==
    /\ ClientStep /\ cur.pkt.type = NETDUMP_VMCORE /\ cur.id \in Live
    /\ cur.pkt.len = NETDUMP_DATASIZE
    /\ At("pwrite") = {} /\ At("memcpy") # {}
    /\ ClientOf(cur.id).vmcorebufoff = VMCORE_BUFSZ

\* the step from the end of a batch to the next kevent(): timeout_clients()
SweepStep == pc = "dispatch" /\ events = <<>> /\ pc' = "wait"
SweepRan == g_last_timeout_check' # g_last_timeout_check
C23_SweepStep ==
    SweepStep =>
      /\ \A i \in 1..Len(g_clients) :
           g_clients[i].last_msg + CLIENT_TIMEOUT >= g_now
             => /\ IsLive(g_clients', g_clients[i].id)
                /\ ~hist'[g_clients[i].id].freed
      /\ SweepRan => /\ g_last_timeout_check' = g_now
                     /\ g_now - g_last_timeout_check >= CLIENT_TPASS
      /\ ~SweepRan => g_clients' = g_clients
\* C23: the sweep terminates no session whose last_msg + CLIENT_TIMEOUT >= now,
\* so a session idle for CLIENT_TIMEOUT exactly survives, and the recorded
\* times of two sweeps that run are at least CLIENT_TPASS apart.
C23_SweepBounds == [][C23_SweepStep]_vars
\* a sweep has run, not the first one, over a session idle for CLIENT_TIMEOUT
\* exactly, which is still live
C23_Witness ==
    /\ cur.ev = "sweep" /\ g_last_timeout_check = g_now
    /\ g_now >= T0 + CLIENT_TPASS
    /\ \E i \in 1..Len(g_clients) :
         g_clients[i].last_msg + CLIENT_TIMEOUT = g_now

\* file name is present in directory dir
Exists(dir, name) == Namei(name) \in DOMAIN dir
\* the indices under which the herald of a step could create both files
FreeIndices ==
    LET h == Hostname(cur'.ip, cur'.r)
    IN  {i \in 0..(MAX_DUMPS - 1) :
           /\ ~Exists(infofiles, InfoFileName(cur'.path, h, i))
           /\ ~Exists(corefiles, CoreFileName(cur'.path, h, i))}
C24_AllocStep ==
    (/\ nherald' = nherald + 1 /\ cur'.ev = "herald" /\ cur'.id = 0
     /\ cur'.r \in {"name", "numeric"})
      => IF FreeIndices # {}
         THEN LET h == Hostname(cur'.ip, cur'.r)
                  i == CHOOSE m \in FreeIndices : \A n \in FreeIndices : m <= n
                  c == g_clients'[1]
              IN  /\ NewSession
                  /\ c.infofilename = InfoFileName(cur'.path, h, i)
                  /\ c.corefilename = CoreFileName(cur'.path, h, i)
                  /\ c.infofile = Namei(c.infofilename)
                  /\ c.corefd = Namei(c.corefilename)
                  /\ Exists(infofiles', c.infofilename)
                  /\ Exists(corefiles', c.corefilename)
                  /\ \E k \in DOMAIN trace' :
                       trace'[k].op = "send" /\ trace'[k].id = c.id
         ELSE /\ g_clients' = g_clients /\ hist' = hist
              /\ corefiles' = corefiles
              /\ \A k \in DOMAIN trace' : trace'[k].op # "send"
SkippedForCore ==
    LET h == Hostname(cur'.ip, cur'.r)
    IN  {i \in 0..(MAX_DUMPS - 1) :
           /\ \A n \in FreeIndices : i < n
           /\ ~Exists(infofiles, InfoFileName(cur'.path, h, i))
           /\ Exists(corefiles, CoreFileName(cur'.path, h, i))}
C25_AllocStep ==
    (/\ nherald' = nherald + 1 /\ cur'.ev = "herald" /\ cur'.id = 0
     /\ cur'.r \in {"name", "numeric"})
      => \A i \in SkippedForCore :
           ~Exists(infofiles', InfoFileName(cur'.path, Hostname(cur'.ip, cur'.r), i))
\* C25: when the info file of index i has been created and the core file of i
\* cannot be, the info file is removed from the dump directory before index
\* i + 1 is tried: a skipped index leaves no info file behind.
C25_SkippedIndexLeavesNothing == [][C25_AllocStep]_vars

\* what fexecve() is given for a request: the script's descriptor, the six
\* argument strings and no environment
Started(nv) ==
    [fd |-> Limits.handlerfd,
     argv |-> <<Limits.handler_script, nv.reason, nv.ip, nv.hostname,
                nv.infofile, nv.corefile>>,
     envp |-> <<>>, exited |-> FALSE]
OsErrors == {"ESPIPE", "EAGAIN"}
NewChildren == SubSeq(children', Len(children) + 1, Len(children'))
OldChildrenKept == SubSeq(children', 1, Len(children)) = children
\* a request with any command is served by the worker
C26_RequestStep ==
    (/\ cur'.ev = "request" /\ worker' = worker /\ OldChildrenKept
     /\ cur' # cur \/ children' # children)
      => LET cmd == cur'.r
             reply == trace'[1].s
         IN  /\ cmd # "exec_handler"
                  => reply = "EINVAL" /\ children' = children
             /\ (cmd = "exec_handler" /\ worker = "ok")
                  => reply = "ok" /\ NewChildren = <<Started(cur'.nvl)>>
             /\ (cmd = "exec_handler" /\ worker \in {"lseek", "fork"})
                  => reply \in OsErrors /\ children' = children
\* the daemon ends sessions and asks for the handler
C26_DaemonStep ==
    (pc' # pc \/ events' # events)
      => LET calls == SelectSeq(trace', LAMBDA e : e.op = "exec_handler")
         IN  /\ OldChildrenKept
             /\ \A k \in DOMAIN calls :
                  /\ IsLive(g_clients, calls[k].id)
                  /\ hist'[calls[k].id].freed
                  /\ ~IsLive(g_clients', calls[k].id)
             /\ IF worker = "ok"
                THEN /\ Len(NewChildren) = Len(calls)
                     /\ \A k \in DOMAIN calls :
                          LET c == ClientOf(calls[k].id)
                          IN  NewChildren[k] =
                                Started(Nvl(calls[k].s, c.ip, c.hostname,
                                            c.infofilename, c.corefilename))
                ELSE /\ NewChildren = <<>>
                     /\ \A i \in DOMAIN trace' :
                          trace'[i].op = "exec_handler"
                            => /\ i + 2 <= Len(trace')
                               /\ trace'[i + 2].op = "logerr"
                               /\ trace'[i + 2].id = trace'[i].id
                               /\ trace'[i + 2].s \in OsErrors \cup {"ENOTCONN"}
\* C26: the worker serves the command exec_handler only.  For each such
\* request it starts exactly one child, which executes the script's descriptor
\* with argv [script, reason, ip, hostname, infofile, corefile] and an empty
\* environment, and replies success while the child runs; when the rewind or
\* the fork fails it starts no child and replies the error code, which the
\* daemon logs, the session being destroyed all the same; any other command
\* is answered EINVAL and starts no child.
C26_HandlerWorker == [][C26_RequestStep /\ C26_DaemonStep]_vars
\* a completed dump has had its child started with reason success while the
\* child of an earlier request is still running
C26_Witness ==
    /\ cur.ev = "client" /\ cur.pkt.type = NETDUMP_FINISHED
    /\ hist[cur.id].freed /\ hist[cur.id].calls = <<"success">>
    /\ Len(children) >= 2
    /\ \A i \in DOMAIN children : ~children[i].exited
    /\ children[Len(children)].argv =
         <<"handler.sh", "success", "10.0.0.2", "donor",
           InfoFileName(".", "donor", 0), CoreFileName(".", "donor", 0)>>
    /\ children[Len(children)].envp = <<>>

====
